---- MODULE Spec2Model ----
(***************************************************************************)
(* Model of auto_translate_ko_po.py: the classifier is_likely_english, the *)
(* reconciliation loop of main() that aligns the English catalog with the  *)
(* Korean one, the batched translation loop and the final save.            *)
(*                                                                         *)
(* Text is a sequence of Unicode code points.  A catalog is a sequence of  *)
(* entries; a target entry is referred to by its position in ko_po, which  *)
(* is stable because main() only ever appends to ko_po.                    *)
(***************************************************************************)
EXTENDS Integers, Sequences, FiniteSets, TLC

VARIABLES
    en_file,          \* EN_PO_PATH on disk: Absent or a POFile
    ko_file,          \* KO_PO_PATH on disk: Absent or a POFile
    ko_dir,           \* whether the directory of KO_PO_PATH exists
    ko_file_before,   \* history: ko_file as it was before the run
    ko_dir_before,    \* history: ko_dir as it was before the run
    backend,          \* which function the translation service computes
    pc,               \* position of main()
    en_po,            \* entries of the loaded source catalog
    ko_po,            \* entries of the in-memory target catalog
    ko_metadata,      \* metadata of the in-memory target catalog
    ko_map,           \* msgid -> position in ko_po
    client,           \* whether get_client() has been called
    targets,          \* the work list
    en_idx,           \* position of the reconciliation loop in en_po
    i,                \* offset of the current batch in targets
    singular_texts,
    singular_entries,
    plural_texts,
    plural_entries,
    singular_results,
    plural_results,
    calls,            \* history: the requests made to the backend, in order
    saves,            \* history: number of ko_po.save() calls
    progress,         \* history: the counts printed after each batch
    writes,           \* history: the assignments to target entries, in order
    text,             \* argument of a direct call of is_likely_english
    verdict           \* its result, "unset" before the call

vars == << en_file, ko_file, ko_dir, ko_file_before, ko_dir_before, backend, pc, en_po, ko_po,
           ko_metadata, ko_map, client, targets, en_idx, i, singular_texts,
           singular_entries, plural_texts, plural_entries, singular_results,
           plural_results, calls, saves, progress, writes, text, verdict >>

mainVars == << en_file, ko_file, ko_dir, ko_file_before, ko_dir_before, backend, pc, en_po, ko_po,
               ko_metadata, ko_map, client, targets, en_idx, i, singular_texts,
               singular_entries, plural_texts, plural_entries, singular_results,
               plural_results, calls, saves, progress, writes >>

---------------------------------------------------------------------------
(* Bounds of the model. *)

\* longest text handed directly to is_likely_english
MaxLen == 3
\* most entries of a small source catalog
MaxSrc == 2
\* most entries of a small pre-existing target catalog
MaxTgt == 1
\* a long source catalog fills up to this many whole batches (plus one entry)
BigBatches == 2

---------------------------------------------------------------------------
(* Program constants. *)

TARGET_LANG == "ko"

BATCH_SIZE == 50

\* the result of dict.get for a missing key; a found value v is <<v>>
None == << >>

Min(a, b) == IF a <= b THEN a ELSE b

---------------------------------------------------------------------------
(* Characters.  The three predicates are the Unicode tables Python's re    *)
(* and str.strip consult, restricted to the ranges the model's texts use.  *)

\* str.isspace / \s : ASCII whitespace, NEL, NBSP, the U+2000 spaces,
\* IDEOGRAPHIC SPACE
IsSpaceChar(c) ==
    \/ c \in 9..13
    \/ c \in 28..32
    \/ c \in {133, 160, 5760, 8232, 8233, 8239, 8287, 12288}
    \/ c \in 8192..8202

\* \d : category Nd. ASCII digits, Arabic-Indic digits, fullwidth digits
IsDigitChar(c) ==
    \/ c \in 48..57
    \/ c \in 1632..1641
    \/ c \in 65296..65305

\* \w : alphanumeric or underscore. ASCII letters and digits, Latin-1
\* letters, superscript digits, Hangul syllables, every \d
IsWordChar(c) ==
    \/ c \in 48..57
    \/ c \in 65..90
    \/ c = 95
    \/ c \in 97..122
    \/ c \in {170, 178, 179, 181, 185, 186}
    \/ (c \in 192..255 /\ c \notin {215, 247})
    \/ c \in 44032..55203
    \/ IsDigitChar(c)

\* [\x00-\x7F\s\d\W] : one character of the class of ASCII_RE
InAsciiClass(c) ==
    \/ c \in 0..127
    \/ IsSpaceChar(c)
    \/ IsDigitChar(c)
    \/ ~IsWordChar(c)

\* ASCII_RE.match(text): ^ class+ $ , where $ also matches just before a
\* newline that ends the text
ASCII_RE_match(s) ==
    \E n \in 1..Len(s) :
        /\ \A k \in 1..n : InAsciiClass(s[k])
        /\ \/ n = Len(s)
           \/ n = Len(s) - 1 /\ s[Len(s)] = 10

RECURSIVE lstrip(_)
lstrip(s) ==
    IF s # << >> /\ IsSpaceChar(Head(s)) THEN lstrip(Tail(s)) ELSE s

RECURSIVE rstrip(_)
rstrip(s) ==
    IF s # << >> /\ IsSpaceChar(s[Len(s)])
    THEN rstrip(SubSeq(s, 1, Len(s) - 1))
    ELSE s

\* str.strip()
strip(s) == rstrip(lstrip(s))

is_likely_english(s) ==
    IF strip(s) = << >> THEN TRUE
    ELSE IF ASCII_RE_match(s) THEN TRUE
    ELSE FALSE

---------------------------------------------------------------------------
(* Texts and entries of the catalogs. *)

\* "Save", "File"
MsgIds == { <<83, 97, 118, 101>>, <<70, 105, 108, 101>> }

\* the plural form of a msgid: "Saves", "Files"
PluralOf(m) == m \o <<115>>

\* a Korean text
Hangul == <<51200, 51109>>

\* a text made of one non-ASCII punctuation mark, U+2026
Ellipsis == <<8230>>

EmptyDict == [k \in {} |-> << >>]

\* dict.get(k, default)
DictGet(d, k, default) == IF k \in DOMAIN d THEN d[k] ELSE default

\* d[k] = v
DictSet(d, k, v) == (k :> v) @@ d

SrcOccurrences == << <<"App.tsx", 10>> >>

SrcComment == <<110, 101, 119>>

OldComment == <<111, 108, 100>>

SrcEntry(m, p, s, o) ==
    [msgid |-> m, msgid_plural |-> p, msgstr |-> s, obsolete |-> o,
     occurrences |-> SrcOccurrences, comment |-> SrcComment]

\* shapes of a source entry: has a plural, is obsolete, its own msgstr
SrcShapes ==
    { <<FALSE, FALSE, << >> >>, <<FALSE, FALSE, Hangul>>, <<TRUE, FALSE, << >> >>,
      <<FALSE, TRUE, << >> >>, <<TRUE, TRUE, << >> >> }

SrcPool ==
    { SrcEntry(m, IF sh[1] THEN PluralOf(m) ELSE << >>, sh[3], sh[2]) :
        m \in MsgIds, sh \in SrcShapes }
    \cup { SrcEntry(<< >>, << >>, << >>, FALSE) }

\* shapes of an entry of a pre-existing target file: has a plural, is
\* obsolete, its msgstr, its msgstr_plural
TgtShapes ==
    { <<FALSE, FALSE, << >>, EmptyDict>>,
      <<FALSE, FALSE, Hangul, EmptyDict>>,
      <<FALSE, FALSE, Ellipsis, EmptyDict>>,
      <<TRUE, FALSE, << >>, EmptyDict>>,
      <<TRUE, FALSE, << >>, DictSet(EmptyDict, 0, Hangul)>>,
      <<TRUE, FALSE, << >>, DictSet(DictSet(EmptyDict, 0, Hangul), 1, Hangul)>>,
      <<FALSE, TRUE, << >>, EmptyDict>>,
      <<FALSE, TRUE, Hangul, EmptyDict>>,
      <<TRUE, TRUE, << >>, EmptyDict>> }

\* an entry that is obsolete or already carries text was written by an
\* earlier extraction: its occurrences and comment are the old ones
TgtEntry(m, sh) ==
    LET stale == sh[2] \/ sh[3] # << >> \/ sh[4] # EmptyDict
    IN  [msgid |-> m,
         msgid_plural |-> IF sh[1] THEN PluralOf(m) ELSE << >>,
         msgstr |-> sh[3],
         msgstr_plural |-> sh[4],
         obsolete |-> sh[2],
         occurrences |-> IF stale THEN << >> ELSE SrcOccurrences,
         comment |-> IF stale THEN OldComment ELSE SrcComment]

TgtPool == { TgtEntry(m, sh) : m \in MsgIds, sh \in TgtShapes }

\* order of the msgids in a small source catalog
Key(m) == IF m = << >> THEN 0 ELSE m[1]

SeqsUpTo(S, n) == UNION { [1..k -> S] : k \in 0..n }

\* small source catalogs: msgids unique, in the order of Key
SrcCatalogs ==
    { s \in SeqsUpTo(SrcPool, MaxSrc) :
        \A a, b \in 1..Len(s) : a < b => Key(s[a].msgid) < Key(s[b].msgid) }

\* small target catalogs: msgids unique, in any order
TgtCatalogs ==
    { s \in SeqsUpTo(TgtPool, MaxTgt) :
        \A a, b \in 1..Len(s) : a # b => s[a].msgid # s[b].msgid }

\* "M" followed by three decimal digits
BigMsgid(k) == <<77, 48 + (k \div 100), 48 + ((k \div 10) % 10), 48 + (k % 10)>>

\* every p-th entry of a long catalog has a plural (none when p = 0)
BigPatterns == {0, 1, 3}

BigEntry(k, p) ==
    SrcEntry(BigMsgid(k),
             IF p > 0 /\ k % p = 0 THEN PluralOf(BigMsgid(k)) ELSE << >>,
             << >>, FALSE)

BigLens == { k * BATCH_SIZE + r : k \in 1..BigBatches, r \in {0, 1} }

BigCatalogs == { [k \in 1..n |-> BigEntry(k, p)] : n \in BigLens, p \in BigPatterns }

EnMetadata == [Language |-> "en"]

KoMetadata == [Language |-> TARGET_LANG]

POFile(meta, entries) == [exists |-> TRUE, metadata |-> meta, entries |-> entries]

\* no file at the path
Absent == [exists |-> FALSE, metadata |-> [Language |-> ""], entries |-> << >>]

\* a test that finds a file at every path
PathAlwaysExists(f) == TRUE

\* os.path.exists(path), on what is at the path
os_path_exists(f) == f # Absent

---------------------------------------------------------------------------
(* The translation service. *)

\* "ko" puts a Hangul syllable in front of the text; "echo" returns the
\* text unchanged, as the service does for a text it cannot translate
Backends == {"ko", "echo"}

Translate(b, s) == IF b = "ko" THEN <<54620>> \o s ELSE s

\* client.translate(texts, ...): one result per text, in the order given
client_translate(b, texts) == [k \in 1..Len(texts) |-> Translate(b, texts[k])]

translate_texts(b, texts) ==
    IF texts = << >> THEN << >> ELSE client_translate(b, texts)

---------------------------------------------------------------------------
(* The reconciliation loop of main(). *)

\* a or b, on texts
Or(a, b) == IF a # << >> THEN a ELSE b

\* a map that was never filled from the loaded catalog
BuildMapEmpty(ko) == EmptyDict

\* {e.msgid: e for e in ko_po}: a later entry replaces an earlier one
BuildMap(ko) ==
    [m \in { ko[j].msgid : j \in 1..Len(ko) } |->
        CHOOSE j \in 1..Len(ko) :
            /\ ko[j].msgid = m
            /\ \A j2 \in 1..Len(ko) : ko[j2].msgid = m => j2 <= j]

\* a lookup that never finds the entry
LookupMiss(map, msgid) == None

\* ko_map.get(msgid)
Lookup(map, msgid) == IF msgid \in DOMAIN map THEN << map[msgid] >> ELSE None

\* an entry put in front of the catalog
InsertFirst(ko, e) == << e >> \o ko

\* ko_po.append(ko_entry)
AppendEntry(ko, e) == Append(ko, e)

\* a new entry built without the comment
NewEntryNoComment(e) ==
    [msgid |-> e.msgid,
     msgid_plural |-> e.msgid_plural,
     msgstr |-> << >>,
     msgstr_plural |-> EmptyDict,
     obsolete |-> FALSE,
     occurrences |-> e.occurrences,
     comment |-> << >>]

\* polib.POEntry(msgid=..., msgid_plural=..., occurrences=..., comment=...)
NewEntry(e) ==
    [msgid |-> e.msgid,
     msgid_plural |-> e.msgid_plural,
     msgstr |-> << >>,
     msgstr_plural |-> EmptyDict,
     obsolete |-> FALSE,
     occurrences |-> e.occurrences,
     comment |-> e.comment]

\* whether the plural entry en_entry, with target ko_entry, needs translation
PluralPending(ko_entry) ==
    LET plural_strs == << DictGet(ko_entry.msgstr_plural, 0, << >>),
                          DictGet(ko_entry.msgstr_plural, 1, << >>) >>
    IN  \A n \in 1..2 : is_likely_english(Or(plural_strs[n], << >>))

\* a test that looks at the target entry alone
SingularPendingTargetOnly(en_entry, ko_entry) == is_likely_english(ko_entry.msgstr)

\* whether the singular entry en_entry, with target ko_entry, needs translation
SingularPending(en_entry, ko_entry) ==
    LET base_text == Or(ko_entry.msgstr, Or(en_entry.msgstr, << >>))
    IN  is_likely_english(base_text)

\* one iteration of `for en_entry in en_po`, on entry k of en;
\* st is [ko_po, ko_map, targets]
ReconcileStep(en, st, k) ==
    LET en_entry == en[k]
    IN  IF en_entry.msgid = << >> \/ en_entry.obsolete THEN st
        ELSE
          LET found == Lookup(st.ko_map, en_entry.msgid)
              ko1 == IF found = None
                     THEN AppendEntry(st.ko_po, NewEntry(en_entry))
                     ELSE st.ko_po
              j == IF found = None THEN Len(ko1) ELSE found[1]
              map1 == IF found = None
                      THEN DictSet(st.ko_map, en_entry.msgid, j)
                      ELSE st.ko_map
              task == IF en_entry.msgid_plural # << >>
                      THEN IF PluralPending(ko1[j])
                           THEN << [kind |-> "plural", en |-> k, ko |-> j] >>
                           ELSE << >>
                      ELSE IF SingularPending(en_entry, ko1[j])
                           THEN << [kind |-> "singular", en |-> k, ko |-> j] >>
                           ELSE << >>
          IN  [ko_po |-> ko1, ko_map |-> map1, targets |-> st.targets \o task]

\* iterations lo..hi of `for en_entry in en_po`, in order. The range is
\* run in two halves, and the state the first half leaves is bound through
\* a one-element set, so that it is a value before the second half starts:
\* this only keeps TLC's evaluation of a long loop shallow.
RECURSIVE ReconcileRange(_, _, _, _)
ReconcileRange(en, st, lo, hi) ==
    IF lo > hi THEN st
    ELSE IF lo = hi THEN ReconcileStep(en, st, lo)
    ELSE CHOOSE r \in { ReconcileRange(en, half, (lo + hi) \div 2 + 1, hi) :
                          half \in { ReconcileRange(en, st, lo, (lo + hi) \div 2) } } :
             TRUE

\* lines 75-111 as a function of the two loaded catalogs
Reconcile(en, ko) ==
    ReconcileRange(en, [ko_po |-> ko, ko_map |-> BuildMap(ko), targets |-> << >>],
                   1, Len(en))

---------------------------------------------------------------------------
(* The batch loop of main(). *)

\* a slice twice as long
SliceDouble(ts, i0, size) == SubSeq(ts, i0 + 1, Min(i0 + 2 * size, Len(ts)))

\* targets[i : i + size]
Slice(ts, i0, size) == SubSeq(ts, i0 + 1, Min(i0 + size, Len(ts)))

\* a partition that forgets to test the kind
SingularEntriesAll(batch) == batch

SingularEntries(batch) == SelectSeq(batch, LAMBDA t : t.kind = "singular")

PluralEntries(batch) == SelectSeq(batch, LAMBDA t : t.kind # "singular")

SingularTexts(en, se) == [k \in 1..Len(se) |-> en[se[k].en].msgid]

\* the pair in the wrong order
PluralPairSwapped(en_entry) == << en_entry.msgid_plural, en_entry.msgid >>

\* plural_texts.extend([en_entry.msgid, en_entry.msgid_plural]), per task
PluralPair(en_entry) == << en_entry.msgid, en_entry.msgid_plural >>

RECURSIVE PluralTexts(_, _)
PluralTexts(en, pe) ==
    IF pe = << >> THEN << >>
    ELSE PluralPair(en[Head(pe).en]) \o PluralTexts(en, Tail(pe))

\* idx += 1 ; idx += 2
SingularIdxStep(idx) == idx + 1

\* the plural index advanced by one
PluralIdxStepOne(idx) == idx + 1

PluralIdxStep(idx) == idx + 2

\* lines 148-152; idx counts from 0 as in the code
RECURSIVE ApplySingular(_, _, _, _)
ApplySingular(ko, se, results, idx) ==
    IF se = << >> THEN ko
    ELSE ApplySingular([ko EXCEPT ![Head(se).ko].msgstr = results[idx + 1]],
                       Tail(se), results, SingularIdxStep(idx))

\* lines 155-161
RECURSIVE ApplyPlural(_, _, _, _)
ApplyPlural(ko, pe, results, idx) ==
    IF pe = << >> THEN ko
    ELSE ApplyPlural(
           [ko EXCEPT ![Head(pe).ko].msgstr_plural =
               DictSet(DictSet(@, 0, results[idx + 1]), 1, results[idx + 2])],
           Tail(pe), results, PluralIdxStep(idx))

\* an offset advanced by one task
NextOffsetOne(i0) == i0 + 1

\* the next value of i in `range(0, len(targets), BATCH_SIZE)`
NextOffset(i0) == i0 + BATCH_SIZE

\* a loop left after its first batch
LoopDoneEarly(i0, n) == i0 > 0

\* whether `for i in range(0, len(targets), BATCH_SIZE)` is exhausted at i0
LoopDone(i0, n) == i0 >= n

\* a save that leaves out the entries without a translation
SaveImageTranslated(meta, entries) ==
    [exists |-> TRUE, metadata |-> meta,
     entries |-> SelectSeq(entries,
                     LAMBDA e : e.msgstr # << >> \/ e.msgstr_plural # EmptyDict)]

\* one entry as ko_po.save() writes it and polib.pofile reads it back:
\* polib writes the msgstr[n] lines of an entry that has plural texts and
\* its msgstr line otherwise, so the msgstr of an entry that has both is
\* not in the file
Written(e) == IF e.msgstr_plural # EmptyDict THEN [e EXCEPT !.msgstr = << >>] ELSE e

\* ko_po.save(): polib writes the entries that are not obsolete, in order,
\* then the obsolete ones
SaveImage(meta, entries) ==
    LET lines == [n \in 1..Len(entries) |-> Written(entries[n])]
    IN  POFile(meta, SelectSeq(lines, LAMBDA e : ~e.obsolete)
                     \o SelectSeq(lines, LAMBDA e : e.obsolete))

\* a loop body that saves after every batch
DiskAfterBatchSaving(file, meta, entries) == SaveImage(meta, entries)

\* what the body of the batch loop leaves on disk: it never saves
DiskAfterBatch(file, meta, entries) == file

\* the assignments of lines 152 and 160-161 for one batch, in the order
\* they are made: which field of which target entry, for which source
\* entry, in the batch at which offset
BatchWrites(at, se, pe) ==
    [k \in 1..Len(se) |->
        [field |-> "msgstr", en |-> se[k].en, ko |-> se[k].ko, at |-> at]]
    \o [k \in 1..Len(pe) |->
        [field |-> "msgstr_plural", en |-> pe[k].en, ko |-> pe[k].ko, at |-> at]]

\* lines 121-161 as a function: one batch applied to the target catalog
RunBatch(en, b, ko, batch) ==
    LET se == SingularEntries(batch)
        pe == PluralEntries(batch)
    IN  ApplyPlural(
          ApplySingular(ko, se, translate_texts(b, SingularTexts(en, se)), 0),
          pe, translate_texts(b, PluralTexts(en, pe)), 0)

\* batches lo..hi (from 0) of the loop of lines 120-161, in order, for
\* batches of `size` tasks; run in two halves like ReconcileRange
RECURSIVE RunBatchRange(_, _, _, _, _, _, _)
RunBatchRange(en, b, ko, ts, size, lo, hi) ==
    IF lo > hi THEN ko
    ELSE IF lo = hi THEN RunBatch(en, b, ko, Slice(ts, lo * size, size))
    ELSE CHOOSE r \in
             { RunBatchRange(en, b, half, ts, size, (lo + hi) \div 2 + 1, hi) :
                 half \in { RunBatchRange(en, b, ko, ts, size, lo, (lo + hi) \div 2) } } :
             TRUE

\* lines 120-161 as a function, for batches of `size` tasks
RunBatches(en, b, ko, ts, size) ==
    RunBatchRange(en, b, ko, ts, size, 0, (Len(ts) + size - 1) \div size - 1)

---------------------------------------------------------------------------
(* The run of main() as a state machine. *)

\* the variables main() owns, before it has done anything
MemInit ==
    /\ en_po = << >>
    /\ ko_po = << >>
    /\ ko_metadata = Absent.metadata
    /\ ko_map = EmptyDict
    /\ client = FALSE
    /\ targets = << >>
    /\ en_idx = 1
    /\ i = 0
    /\ singular_texts = << >>
    /\ singular_entries = << >>
    /\ plural_texts = << >>
    /\ plural_entries = << >>
    /\ singular_results = << >>
    /\ plural_results = << >>
    /\ calls = << >>
    /\ saves = 0
    /\ progress = << >>
    /\ writes = << >>

Init ==
    /\ \/ /\ en_file \in { POFile(EnMetadata, c) : c \in SrcCatalogs } \cup {Absent}
          /\ ko_file \in { POFile(KoMetadata, c) : c \in TgtCatalogs } \cup {Absent}
          /\ ko_dir \in (IF ko_file = Absent THEN BOOLEAN ELSE {TRUE})
       \/ /\ en_file \in { POFile(EnMetadata, c) : c \in BigCatalogs }
          /\ ko_file = Absent
          /\ ko_dir = FALSE
    /\ ko_file_before = ko_file
    /\ ko_dir_before = ko_dir
    /\ backend \in Backends
    /\ pc = "main"
    /\ MemInit
    /\ text = << >>
    /\ verdict = "unset"

\* lines 57-58
CheckSource ==
    /\ pc = "main"
    /\ pc' = IF ~os_path_exists(en_file) THEN "no_source" ELSE "load"
    /\ UNCHANGED << en_file, ko_file, ko_dir, ko_file_before, ko_dir_before, backend, en_po, ko_po,
                    ko_metadata, ko_map, client, targets, en_idx, i, singular_texts,
                    singular_entries, plural_texts, plural_entries,
                    singular_results, plural_results, calls, saves, progress, writes,
                    text, verdict >>

\* lines 63-75
LoadCatalogs ==
    /\ pc = "load"
    /\ en_po' = en_file.entries
    /\ IF os_path_exists(ko_file)
       THEN /\ ko_po' = ko_file.entries
            /\ ko_metadata' = ko_file.metadata
            /\ ko_dir' = ko_dir
       ELSE /\ ko_dir' = TRUE
            /\ ko_po' = << >>
            /\ ko_metadata' = [en_file.metadata EXCEPT !.Language = TARGET_LANG]
    /\ ko_map' = BuildMap(ko_po')
    /\ pc' = "client"
    /\ UNCHANGED << en_file, ko_file, ko_file_before, ko_dir_before, backend, client, targets,
                    en_idx, i, singular_texts, singular_entries, plural_texts,
                    plural_entries, singular_results, plural_results, calls, saves,
                    progress, writes, text, verdict >>

\* lines 77-78
GetClient ==
    /\ pc = "client"
    /\ client' = TRUE
    /\ targets' = << >>
    /\ en_idx' = 1
    /\ pc' = "reconcile"
    /\ UNCHANGED << en_file, ko_file, ko_dir, ko_file_before, ko_dir_before, backend, en_po, ko_po,
                    ko_metadata, ko_map, i, singular_texts, singular_entries,
                    plural_texts, plural_entries, singular_results, plural_results,
                    calls, saves, progress, writes, text, verdict >>

\* lines 81-111, one iteration
ReconcileEntry ==
    /\ pc = "reconcile"
    /\ en_idx <= Len(en_po)
    /\ LET st == ReconcileStep(en_po,
                     [ko_po |-> ko_po, ko_map |-> ko_map, targets |-> targets],
                     en_idx)
       IN  /\ ko_po' = st.ko_po
           /\ ko_map' = st.ko_map
           /\ targets' = st.targets
    /\ en_idx' = en_idx + 1
    /\ UNCHANGED << en_file, ko_file, ko_dir, ko_file_before, ko_dir_before, backend, pc, en_po,
                    ko_metadata, client, i, singular_texts, singular_entries,
                    plural_texts, plural_entries, singular_results, plural_results,
                    calls, saves, progress, writes, text, verdict >>

\* lines 113-119: the loop is over; return when there is nothing to translate
EndReconcile ==
    /\ pc = "reconcile"
    /\ en_idx > Len(en_po)
    /\ pc' = IF targets = << >> THEN "returned" ELSE "batch"
    /\ i' = 0
    /\ UNCHANGED << en_file, ko_file, ko_dir, ko_file_before, ko_dir_before, backend, en_po, ko_po,
                    ko_metadata, ko_map, client, targets, en_idx, singular_texts,
                    singular_entries, plural_texts, plural_entries,
                    singular_results, plural_results, calls, saves, progress, writes,
                    text, verdict >>

\* lines 120-135
BuildBatch ==
    /\ pc = "batch"
    /\ ~LoopDone(i, Len(targets))
    /\ LET batch == Slice(targets, i, BATCH_SIZE)
       IN  /\ singular_entries' = SingularEntries(batch)
           /\ singular_texts' = SingularTexts(en_po, SingularEntries(batch))
           /\ plural_entries' = PluralEntries(batch)
           /\ plural_texts' = PluralTexts(en_po, PluralEntries(batch))
    /\ pc' = "call_singular"
    /\ UNCHANGED << en_file, ko_file, ko_dir, ko_file_before, ko_dir_before, backend, en_po, ko_po,
                    ko_metadata, ko_map, client, targets, en_idx, i,
                    singular_results, plural_results, calls, saves, progress, writes,
                    text, verdict >>

\* lines 138-140; the call returns or raises
TranslateSingular ==
    /\ pc = "call_singular"
    /\ IF singular_texts = << >>
       THEN /\ singular_results' = << >>
            /\ pc' = "call_plural"
            /\ calls' = calls
       ELSE /\ calls' = Append(calls, [list |-> "singular", at |-> i,
                                       texts |-> singular_texts])
            /\ \/ /\ singular_results' = translate_texts(backend, singular_texts)
                  /\ pc' = "call_plural"
               \/ /\ singular_results' = << >>
                  /\ pc' = "backend_error"
    /\ UNCHANGED << en_file, ko_file, ko_dir, ko_file_before, ko_dir_before, backend, en_po, ko_po,
                    ko_metadata, ko_map, client, targets, en_idx, i, singular_texts,
                    singular_entries, plural_texts, plural_entries, plural_results,
                    saves, progress, writes, text, verdict >>

\* lines 143-145; the call returns or raises
TranslatePlural ==
    /\ pc = "call_plural"
    /\ IF plural_texts = << >>
       THEN /\ plural_results' = << >>
            /\ pc' = "apply"
            /\ calls' = calls
       ELSE /\ calls' = Append(calls, [list |-> "plural", at |-> i,
                                       texts |-> plural_texts])
            /\ \/ /\ plural_results' = translate_texts(backend, plural_texts)
                  /\ pc' = "apply"
               \/ /\ plural_results' = << >>
                  /\ pc' = "backend_error"
    /\ UNCHANGED << en_file, ko_file, ko_dir, ko_file_before, ko_dir_before, backend, en_po, ko_po,
                    ko_metadata, ko_map, client, targets, en_idx, i, singular_texts,
                    singular_entries, plural_texts, plural_entries,
                    singular_results, saves, progress, writes, text, verdict >>

\* lines 147-163, then the next value of i
ApplyResults ==
    /\ pc = "apply"
    /\ ko_po' = ApplyPlural(ApplySingular(ko_po, singular_entries,
                                          singular_results, 0),
                            plural_entries, plural_results, 0)
    /\ ko_file' = DiskAfterBatch(ko_file, ko_metadata, ko_po')
    /\ progress' = Append(progress, i + Len(Slice(targets, i, BATCH_SIZE)))
    /\ writes' = writes \o BatchWrites(i, singular_entries, plural_entries)
    /\ i' = NextOffset(i)
    /\ pc' = "batch"
    /\ UNCHANGED << en_file, ko_dir, ko_file_before, ko_dir_before, backend, en_po, ko_metadata,
                    ko_map, client, targets, en_idx, singular_texts,
                    singular_entries, plural_texts, plural_entries,
                    singular_results, plural_results, calls, saves, text, verdict >>

\* lines 165-166
Save ==
    /\ pc = "batch"
    /\ LoopDone(i, Len(targets))
    /\ ko_file' = SaveImage(ko_metadata, ko_po)
    /\ saves' = saves + 1
    /\ pc' = "saved"
    /\ UNCHANGED << en_file, ko_dir, ko_file_before, ko_dir_before, backend, en_po, ko_po,
                    ko_metadata, ko_map, client, targets, en_idx, i, singular_texts,
                    singular_entries, plural_texts, plural_entries,
                    singular_results, plural_results, calls, progress, writes, text,
                    verdict >>

Next ==
    \/ CheckSource
    \/ LoadCatalogs
    \/ GetClient
    \/ ReconcileEntry
    \/ EndReconcile
    \/ BuildBatch
    \/ TranslateSingular
    \/ TranslatePlural
    \/ ApplyResults
    \/ Save

Spec == Init /\ [][Next]_vars

\* main() is sequential code: a statement that can run does run
FairSpec == Spec /\ WF_vars(Next)

---------------------------------------------------------------------------
(* Direct calls of is_likely_english. *)

\* the characters of the texts: A, space, newline, %, a Hangul syllable,
\* U+2026, IDEOGRAPHIC SPACE, FULLWIDTH DIGIT ONE, e with acute
Alphabet == {65, 32, 10, 37, 54620, 8230, 12288, 65297, 233}

Texts == SeqsUpTo(Alphabet, MaxLen)

ClassifierInit ==
    /\ text \in Texts
    /\ verdict = "unset"
    /\ en_file = Absent
    /\ ko_file = Absent
    /\ ko_dir = FALSE
    /\ ko_file_before = Absent
    /\ ko_dir_before = FALSE
    /\ backend = "ko"
    /\ pc = "idle"
    /\ MemInit

Classify ==
    /\ verdict = "unset"
    /\ verdict' = IF is_likely_english(text) THEN "True" ELSE "False"
    /\ UNCHANGED << text, mainVars >>

ClassifierNext == Classify

ClassifierSpec == ClassifierInit /\ [][ClassifierNext]_vars

---------------------------------------------------------------------------
(* Vocabulary of the properties. *)

\* the entries main() started from: those of the target file, or none
Loaded == ko_file_before.entries

\* the reconciliation loop has finished
AfterReconcile ==
    pc \in {"returned", "batch", "call_singular", "call_plural", "apply",
            "saved", "backend_error"}

\* a source entry the reconciliation loop does not skip
Processed(e) == e.msgid # << >> /\ ~e.obsolete

Range(f) == { f[x] : x \in DOMAIN f }

Positions(cat, m) == { j \in 1..Len(cat) : cat[j].msgid = m }

TaskSources == { t.en : t \in Range(targets) }

TaskTargets == { t.ko : t \in Range(targets) }

\* the four fields a new target entry takes from its source entry
Skeleton(e) == << e.msgid, e.msgid_plural, e.occurrences, e.comment >>

\* the target catalog as reconciliation leaves it, before any translation
Reconciled == Reconcile(en_po, Loaded).ko_po

---------------------------------------------------------------------------
(* C1 *)

AllAscii(s) == \A k \in 1..Len(s) : s[k] \in 0..127

\* C1: is_likely_english returns True for every text that is empty,
\* whitespace-only or made only of 7-bit ASCII characters, and False for
\* every text that holds at least one character outside the 7-bit range.
C1_TrueExactlyOnAscii ==
    verdict # "unset" =>
        /\ AllAscii(text) => verdict = "True"
        /\ ~AllAscii(text) => verdict = "False"

---------------------------------------------------------------------------
(* C2 *)

\* C2: once the reconciliation loop has finished, every source entry that
\* is not obsolete and has a non-empty msgid has exactly one entry with its
\* msgid in the in-memory target catalog, in the work list or not.
C2_OneTargetPerSource ==
    AfterReconcile =>
        \A k \in 1..Len(en_po) :
            Processed(en_po[k]) =>
                Cardinality(Positions(ko_po, en_po[k].msgid)) = 1

\* a created entry and a pre-existing one, one in the work list, one not
C2_Witness ==
    /\ AfterReconcile
    /\ Len(ko_po) > Len(Loaded)
    /\ \E k1, k2 \in 1..Len(en_po) :
        /\ Processed(en_po[k1]) /\ k1 \in TaskSources
        /\ Processed(en_po[k2]) /\ k2 \notin TaskSources
        /\ Positions(Loaded, en_po[k2].msgid) # {}

---------------------------------------------------------------------------
(* C3 *)

\* C3 as stated: after reconciliation, and in the saved file, every target
\* entry with the msgid of a processed source entry, created or already
\* present, has that entry's msgid, msgid_plural, occurrences and comment.
C3_SkeletonAlwaysEqual ==
    AfterReconcile =>
        \A k \in 1..Len(en_po) :
            Processed(en_po[k]) =>
                /\ \A j \in Positions(ko_po, en_po[k].msgid) :
                       Skeleton(ko_po[j]) = Skeleton(en_po[k])
                /\ pc = "saved" =>
                       \A j \in Positions(ko_file.entries, en_po[k].msgid) :
                           Skeleton(ko_file.entries[j]) = Skeleton(en_po[k])

\* the skeleton the target entry for msgid m must have: the source's when
\* the run created the entry, the loaded one's when it was already there
ExpectedSkeleton(en_entry) ==
    IF Positions(Loaded, en_entry.msgid) = {}
    THEN Skeleton(en_entry)
    ELSE Skeleton(Loaded[CHOOSE j \in Positions(Loaded, en_entry.msgid) : TRUE])

\* C3, amended: after reconciliation, and in the saved file, the target
\* entry that ko_map gives for a processed source entry has its msgid; an
\* entry the run created also has its msgid_plural, occurrences and
\* comment, and an entry that was loaded keeps the ones it was loaded with.
C3_NewEntriesCopySkeleton ==
    AfterReconcile =>
        \A k \in 1..Len(en_po) :
            Processed(en_po[k]) =>
                /\ en_po[k].msgid \in DOMAIN ko_map
                /\ ko_po[ko_map[en_po[k].msgid]].msgid = en_po[k].msgid
                /\ Skeleton(ko_po[ko_map[en_po[k].msgid]]) = ExpectedSkeleton(en_po[k])
                /\ pc = "saved" =>
                       \A j \in Positions(ko_file.entries, en_po[k].msgid) :
                           Skeleton(ko_file.entries[j]) = ExpectedSkeleton(en_po[k])

\* the saved catalog holds a created entry and a loaded one whose comment
\* is not its source entry's
C3_Witness ==
    /\ pc = "saved"
    /\ \E k1, k2 \in 1..Len(en_po) :
        /\ Processed(en_po[k1]) /\ Positions(Loaded, en_po[k1].msgid) = {}
        /\ Processed(en_po[k2])
        /\ \E j \in Positions(Loaded, en_po[k2].msgid) :
               /\ ko_po[j].comment # en_po[k2].comment
               /\ ko_po[j].msgid_plural # en_po[k2].msgid_plural

---------------------------------------------------------------------------
(* C4 *)

\* C4: when a backend call fails, in any batch and for either list, the
\* run has not saved and never will: the target file is what it was
\* before the run.
C4_NoSaveOnBackendFailure ==
    pc = "backend_error" => saves = 0 /\ ko_file = ko_file_before

\* the plural call of a later batch fails after an earlier batch has
\* written translations into the in-memory entries
C4_Witness ==
    /\ pc = "backend_error"
    /\ i > 0
    /\ calls[Len(calls)].list = "plural"
    /\ ko_po # Reconciled

---------------------------------------------------------------------------
(* C5 *)

\* the number of batches of a work list of n tasks
NumBatches(n) == (n + BATCH_SIZE - 1) \div BATCH_SIZE

\* every batch of the work list has been translated and applied
AllBatchesDone ==
    /\ Len(progress) = NumBatches(Len(targets))
    /\ i >= Len(targets)

\* C5 as stated: every run that ends without an error has saved the
\* target catalog exactly once, and a save only ever follows the last
\* batch.
C5_SavedOnceOnEveryNormalEnd ==
    /\ pc \in {"returned", "saved"} => saves = 1
    /\ saves > 0 => AllBatchesDone

\* C5, amended: a run whose work list is not empty and that does not abort
\* saves exactly once, after all its batches, and never before or between
\* them; a run whose work list is empty returns without saving.
C5_SavedOnceAfterAllBatches ==
    /\ pc = "saved" => saves = 1 /\ targets # << >> /\ AllBatchesDone
    /\ pc # "saved" => saves = 0 /\ ko_file = ko_file_before
    /\ pc = "returned" => targets = << >>

\* a run of several batches has saved
C5_Witness ==
    /\ pc = "saved"
    /\ saves = 1
    /\ Len(progress) > 1

---------------------------------------------------------------------------
(* C6 *)

\* reconciliation has finished and no translation has been applied yet
ReconciledOnly == pc = "returned" \/ (pc = "batch" /\ i = 0)

\* C6: reconciling the same source catalog against the target catalog the
\* first reconciliation produced gives the same work list and appends
\* nothing.
C6_ReconcileIdempotent ==
    ReconciledOnly =>
        /\ Reconcile(en_po, ko_po).targets = targets
        /\ Reconcile(en_po, ko_po).ko_po = ko_po

\* the first reconciliation appended to a non-empty loaded catalog and
\* found work
C6_Witness ==
    /\ pc = "batch"
    /\ i = 0
    /\ Loaded # << >>
    /\ Len(ko_po) > Len(Loaded)
    /\ targets # << >>

---------------------------------------------------------------------------
(* C7 *)

\* the tasks of the batches applied so far
TasksDone == SubSeq(targets, 1, Min(i, Len(targets)))

\* C7: after every batch, and at the end, the target catalog is what
\* translating the same tasks one at a time (batches of one task) gives.
C7_BatchedEqualsPerTask ==
    pc \in {"batch", "saved"} =>
        ko_po = RunBatches(en_po, backend, Reconciled, TasksDone, 1)

\* a saved run of several batches whose work list mixes the two kinds
C7_Witness ==
    /\ pc = "saved"
    /\ Len(progress) > 1
    /\ \E a, b \in 1..BATCH_SIZE :
        targets[a].kind = "singular" /\ targets[b].kind = "plural"

---------------------------------------------------------------------------
(* C8 *)

\* positions, in a batch, of its plural tasks
PluralPositions(batch) == { n \in 1..Len(batch) : batch[n].kind = "plural" }

\* the k-th plural task of a batch, k from 1
NthPlural(batch, k) ==
    batch[CHOOSE n \in PluralPositions(batch) :
              Cardinality({ m \in PluralPositions(batch) : m <= n }) = k]

\* C8: in a batch, the k-th plural task (k from 0) has its msgid at
\* position 2k of the plural text list and its msgid_plural at 2k+1, and
\* once the batch is applied its target entry holds the translation of its
\* own msgid in msgstr_plural[0] and of its own msgid_plural in
\* msgstr_plural[1].
C8_PluralPairsKeepTheirTask ==
    /\ pc \in {"call_singular", "call_plural", "apply"} =>
        LET batch == Slice(targets, i, BATCH_SIZE)
        IN  /\ Len(plural_texts) = 2 * Cardinality(PluralPositions(batch))
            /\ \A k \in 0..(Cardinality(PluralPositions(batch)) - 1) :
                 LET t == NthPlural(batch, k + 1)
                 IN  /\ plural_texts[2 * k + 1] = en_po[t.en].msgid
                     /\ plural_texts[2 * k + 2] = en_po[t.en].msgid_plural
    /\ pc \in {"batch", "saved"} =>
        \A n \in 1..Len(TasksDone) :
            targets[n].kind = "plural" =>
                LET en_entry == en_po[targets[n].en]
                    ko_entry == ko_po[targets[n].ko]
                IN  /\ DOMAIN ko_entry.msgstr_plural = {0, 1}
                    /\ ko_entry.msgstr_plural[0] = Translate(backend, en_entry.msgid)
                    /\ ko_entry.msgstr_plural[1] =
                           Translate(backend, en_entry.msgid_plural)

\* a batch with several plural tasks has been applied
C8_Witness ==
    /\ pc = "batch"
    /\ i > 0
    /\ Len(plural_entries) > 1
    /\ Len(singular_entries) > 0

---------------------------------------------------------------------------
(* C9 *)

\* every text sent to the backend so far
SentTexts == UNION { Range(calls[c].texts) : c \in 1..Len(calls) }

\* how many times the text x has been sent
TimesSent(x) ==
    Cardinality({ p \in UNION { {c} \X (1..Len(calls[c].texts)) : c \in 1..Len(calls) } :
                    calls[p[1]].texts[p[2]] = x })

\* the texts of the work list: the msgid of every task and the
\* msgid_plural of every plural task
WorkListTexts ==
    { en_po[t.en].msgid : t \in Range(targets) }
    \cup { en_po[t.en].msgid_plural : t \in { u \in Range(targets) : u.kind = "plural" } }

\* how many times the text x occurs among the texts of the work list
TimesInWorkList(x) ==
    Cardinality({ n \in 1..Len(targets) : en_po[targets[n].en].msgid = x })
    + Cardinality({ n \in 1..Len(targets) :
                      /\ targets[n].kind = "plural"
                      /\ en_po[targets[n].en].msgid_plural = x })

SameText(a, b) == a.msgstr = b.msgstr /\ a.msgstr_plural = b.msgstr_plural

\* C9: the texts sent to the backend are the msgids and msgid_plurals of
\* the work list, none more than once and, in a run that saves, each
\* exactly once; a target entry outside the work list is saved with the
\* msgstr and msgstr_plural it was loaded with; and a work list of one
\* singular task makes one call, with the one-element list of its msgid.
C9_OnlyWorkListSentAndWritten ==
    /\ pc \in {"saved", "backend_error"} =>
        \A x \in SentTexts : TimesSent(x) <= TimesInWorkList(x)
    /\ pc = "saved" =>
        /\ \A x \in WorkListTexts : TimesSent(x) = TimesInWorkList(x)
        /\ \A j \in (1..Len(ko_po)) \ TaskTargets :
               /\ j <= Len(Loaded) => SameText(ko_po[j], Loaded[j])
               /\ j > Len(Loaded) => SameText(ko_po[j], NewEntry(ko_po[j]))
               /\ \E n \in Positions(ko_file.entries, ko_po[j].msgid) :
                      SameText(ko_file.entries[n], ko_po[j])
        /\ (Len(targets) = 1 /\ targets[1].kind = "singular") =>
               /\ Len(calls) = 1
               /\ calls[1].texts = << en_po[targets[1].en].msgid >>

\* one pending singular entry and one loaded entry already in Korean: the
\* run has saved after a single call
C9_Witness ==
    /\ pc = "saved"
    /\ Len(targets) = 1
    /\ targets[1].kind = "singular"
    /\ \E j \in (1..Len(Loaded)) \ TaskTargets :
           /\ ko_po[j].msgstr = Hangul
           /\ ~ko_po[j].obsolete
           /\ \E k \in 1..Len(en_po) :
                  Processed(en_po[k]) /\ en_po[k].msgid = ko_po[j].msgid

---------------------------------------------------------------------------
(* C10 *)

\* C10: no obsolete entry, of the source catalog or of the target catalog,
\* is put in the work list, has its text sent, or has its msgstr or
\* msgstr_plural modified.
C10_ObsoleteNeverProcessed ==
    /\ \A t \in Range(targets) :
           ~en_po[t.en].obsolete /\ ~ko_po[t.ko].obsolete
    /\ \A x \in SentTexts :
           \A k \in 1..Len(en_po) :
               (en_po[k].obsolete /\ ~\E k2 \in 1..Len(en_po) :
                    ~en_po[k2].obsolete
                    /\ x \in {en_po[k2].msgid, en_po[k2].msgid_plural})
               => x \notin {en_po[k].msgid, en_po[k].msgid_plural}
    /\ \A j \in 1..Min(Len(Loaded), Len(ko_po)) :
           Loaded[j].obsolete => SameText(ko_po[j], Loaded[j])

---------------------------------------------------------------------------
(* C11 *)

\* the catalogs have been loaded
CatalogsLoaded == pc \notin {"main", "load", "no_source"}

\* the reconciliation loop has created a target entry for source entry k:
\* it has passed it, it is processed, the target file had no entry with its
\* msgid, and no earlier processed source entry has that msgid
CreatedFor(k) ==
    /\ k < en_idx
    /\ Processed(en_po[k])
    /\ Positions(Loaded, en_po[k].msgid) = {}
    /\ \A k2 \in 1..(k - 1) :
           Processed(en_po[k2]) => en_po[k2].msgid # en_po[k].msgid

\* the msgids of the entries created so far, in source-catalog order
CreatedMsgids ==
    LET created == SelectSeq([k \in 1..Len(en_po) |-> k], CreatedFor)
    IN  [n \in 1..Len(created) |-> en_po[created[n]].msgid]

\* a and b are one entry, up to its translation
SameEntry(a, b) == Skeleton(a) = Skeleton(b) /\ a.obsolete = b.obsolete

---------------------------------------------------------------------------
(* C12 *)

\* C12: when there is no source file, the run goes from its start to the
\* error and nowhere else: no client is created, no call is made, no
\* directory or file is created or written, no catalog is loaded or
\* changed, and the target file is what it was.
C12_MissingSourceAbortsFirst ==
    en_file = Absent =>
        /\ pc \in {"main", "no_source"}
        /\ client = FALSE
        /\ calls = << >>
        /\ saves = 0
        /\ ko_dir = ko_dir_before
        /\ ko_file = ko_file_before
        /\ en_po = << >> /\ ko_po = << >> /\ ko_map = EmptyDict
        /\ targets = << >> /\ writes = << >>

\* the run has aborted for want of the source file, with a target file
\* in place
C12_Witness ==
    /\ pc = "no_source"
    /\ en_file = Absent
    /\ ko_file # Absent
    /\ ko_file.entries # << >>

---------------------------------------------------------------------------
(* C13 *)

\* plural slot n of a target entry, a missing slot being the empty text
PluralSlot(e, n) == IF n \in DOMAIN e.msgstr_plural THEN e.msgstr_plural[n] ELSE << >>

\* the task the rule gives source entry e with target entry t: "plural",
\* "singular" or "none"
RuleKind(e, t) ==
    IF e.msgid_plural # << >>
    THEN IF is_likely_english(PluralSlot(t, 0)) /\ is_likely_english(PluralSlot(t, 1))
         THEN "plural"
         ELSE "none"
    ELSE LET chosen == IF t.msgstr # << >> THEN t.msgstr
                       ELSE IF e.msgstr # << >> THEN e.msgstr
                       ELSE << >>
         IN  IF is_likely_english(chosen) THEN "singular" ELSE "none"

\* C13: while the reconciliation loop runs and when it has finished, the
\* work list holds, in source-catalog order and at most once each, exactly
\* the processed source entries passed so far to which the rule gives a
\* task, each with the kind the rule gives and with the target entry of
\* its msgid.
C13_WorkListFollowsRule ==
    (pc = "reconcile" \/ ReconciledOnly) =>
        /\ \A n \in 1..Len(targets) :
               LET t == targets[n]
               IN  /\ t.en < en_idx
                   /\ Processed(en_po[t.en])
                   /\ ko_po[t.ko].msgid = en_po[t.en].msgid
                   /\ t.kind = RuleKind(en_po[t.en], ko_po[t.ko])
        /\ \A n \in 1..(Len(targets) - 1) : targets[n].en < targets[n + 1].en
        /\ \A k \in 1..Min(en_idx - 1, Len(en_po)) :
               (/\ Processed(en_po[k])
                /\ RuleKind(en_po[k], ko_po[ko_map[en_po[k].msgid]]) # "none")
               => k \in TaskSources

\* reconciliation has ended with a plural task, and has left out a plural
\* entry whose target has one slot translated and the other missing
C13_Witness ==
    /\ ReconciledOnly
    /\ \E t \in Range(targets) : t.kind = "plural"
    /\ \E k \in 1..Len(en_po) :
        /\ Processed(en_po[k])
        /\ en_po[k].msgid_plural # << >>
        /\ k \notin TaskSources
        /\ DOMAIN ko_po[ko_map[en_po[k].msgid]].msgstr_plural = {0}

---------------------------------------------------------------------------
(* C14 *)

\* the text of target entry j before any translation of this run
Untouched(j) ==
    IF j <= Len(Loaded) THEN SameText(ko_po[j], Loaded[j])
    ELSE ko_po[j].msgstr = << >> /\ ko_po[j].msgstr_plural = EmptyDict

\* C14: no call carries an empty list; a singular call carries at most
\* BATCH_SIZE texts and a plural call at most twice that; of two
\* consecutive calls, the later one is of a later batch or is the plural
\* call of the batch whose singular call the earlier one is (so a batch
\* has at most one call of each kind, singular first); and while the calls
\* of a batch are being made, nothing of that batch has been written.
C14_CallsOfABatch ==
    /\ \A c \in 1..Len(calls) :
           /\ calls[c].texts # << >>
           /\ calls[c].list = "singular" => Len(calls[c].texts) <= BATCH_SIZE
           /\ calls[c].list = "plural" => Len(calls[c].texts) <= 2 * BATCH_SIZE
    /\ \A c \in 1..(Len(calls) - 1) :
           \/ calls[c].at < calls[c + 1].at
           \/ /\ calls[c].at = calls[c + 1].at
              /\ calls[c].list = "singular"
              /\ calls[c + 1].list = "plural"
    /\ pc \in {"call_singular", "call_plural", "apply", "backend_error"} =>
           /\ \A w \in Range(writes) : w.at < i
           /\ \A t \in Range(Slice(targets, i, BATCH_SIZE)) : Untouched(t.ko)
    /\ pc = "apply" =>
           /\ singular_texts # << >> =>
                  \E c \in 1..Len(calls) :
                      calls[c].at = i /\ calls[c].texts = singular_texts
           /\ plural_texts # << >> =>
                  \E c \in 1..Len(calls) :
                      calls[c].at = i /\ calls[c].texts = plural_texts

\* a later batch has made its singular call and then its plural call and
\* is about to write
C14_Witness ==
    /\ pc = "apply"
    /\ i > 0
    /\ Len(calls) >= 4
    /\ calls[Len(calls) - 1].list = "singular" /\ calls[Len(calls) - 1].at = i
    /\ calls[Len(calls)].list = "plural" /\ calls[Len(calls)].at = i

---------------------------------------------------------------------------
(* C15 *)

\* main() has returned or raised
Halted == pc \in {"no_source", "returned", "saved", "backend_error"}

\* the writes made to target entry j
WritesTo(j) == { w \in 1..Len(writes) : writes[w].ko = j }

\* the counts of the batch loop, at every step
C15_Counts ==
    /\ \A n \in 1..Len(progress) : progress[n] = Min(n * BATCH_SIZE, Len(targets))
    /\ \A n \in 1..(Len(progress) - 1) : progress[n] < progress[n + 1]
    /\ pc = "saved" =>
        /\ Len(targets) > 0
        /\ Len(progress) = NumBatches(Len(targets))
        /\ progress[Len(progress)] = Len(targets)
        /\ Len(writes) = Len(targets)
        /\ \A n \in 1..Len(targets) :
               /\ Cardinality(WritesTo(targets[n].ko)) = 1
               /\ \A w \in WritesTo(targets[n].ko) :
                      /\ writes[w].en = targets[n].en
                      /\ writes[w].at = ((n - 1) \div BATCH_SIZE) * BATCH_SIZE
    /\ pc = "backend_error" =>
        /\ calls # << >>
        /\ \A c \in 1..Len(calls) : calls[c].at <= i
        /\ calls[Len(calls)].at = i
        /\ Len(progress) = i \div BATCH_SIZE
        /\ \A w \in Range(writes) : w.at < i

\* C15: every run ends; a run that ends by saving has run exactly
\* ceil(n / BATCH_SIZE) batches over its n > 0 tasks, every task in the one
\* batch of its position and its target entry assigned exactly once, and
\* has reported strictly increasing counts, the last of them n; a run in
\* which a call fails has started no batch after the failing one, and
\* does nothing more.
C15_EveryRunEndsAfterItsBatches ==
    /\ []C15_Counts
    /\ [][pc # "backend_error"]_vars
    /\ <>Halted

\* a run of three batches, the last of one task, has saved
C15_Witness ==
    /\ pc = "saved"
    /\ Len(targets) = 2 * BATCH_SIZE + 1
    /\ progress = << BATCH_SIZE, 2 * BATCH_SIZE, 2 * BATCH_SIZE + 1 >>

---------------------------------------------------------------------------
(* C16 *)

\* C16: every assignment of msgstr_plural[0] and [1] is to a target entry
\* that has a msgid_plural, and every assignment of msgstr is to a target
\* entry that has none, whether the entry was loaded or created.
C16_WriteMatchesTargetShape ==
    \A w \in Range(writes) :
        /\ w.field = "msgstr_plural" => ko_po[w.ko].msgid_plural # << >>
        /\ w.field = "msgstr" => ko_po[w.ko].msgid_plural = << >>

---------------------------------------------------------------------------
(* C17 *)

\* the target file holds an entry for every processed source entry
OnDisk ==
    \A k \in 1..Len(en_po) :
        Processed(en_po[k]) => Positions(ko_file.entries, en_po[k].msgid) # {}

\* C17 as stated: whenever a run ends without an error, the target file
\* holds an entry for every processed source entry.
C17_OnDiskAfterEveryNormalEnd ==
    pc \in {"returned", "saved"} => OnDisk

\* C17, amended: a run that ends by saving leaves on disk an entry for
\* every processed source entry, those it created without translating
\* them included; a run that ends on an empty work list leaves the target
\* file, present or not, as it was, so the entries it created are not on
\* disk.
C17_OnDiskAfterSave ==
    /\ pc = "saved" => OnDisk
    /\ pc = "returned" => ko_file = ko_file_before

\* a run has saved an entry that it created and did not translate
C17_Witness ==
    /\ pc = "saved"
    /\ \E k \in 1..Len(en_po) :
        /\ Processed(en_po[k])
        /\ k \notin TaskSources
        /\ Positions(Loaded, en_po[k].msgid) = {}
        /\ Positions(ko_file.entries, en_po[k].msgid) # {}

---------------------------------------------------------------------------
(* C18 *)

\* every text the backend has returned in this run is classified as
\* translated
BackendTranslates ==
    \A x \in SentTexts : ~is_likely_english(Translate(backend, x))

\* C18: after a run that has ended without an error, with a backend whose
\* every result is classified as translated, reconciling the same source
\* catalog against the target file as the run left it gives an empty work
\* list.
C18_SecondRunFindsNothing ==
    (pc \in {"returned", "saved"} /\ BackendTranslates) =>
        Reconcile(en_po, ko_file.entries).targets = << >>

====
